---- MODULE Spec2Model ----
(***************************************************************************)
(* trivelastic: the request-processing pipeline.                           *)
(*   internal/worker/pool.go          Pool, Submit, worker, processRequest *)
(*   internal/elasticsearch/client.go IndexDocument, sendRequest           *)
(*   pkg/sanitizer/sanitizer.go       SanitizeJSON, sanitizeArray          *)
(*   internal/handler/server.go       handleRequest                        *)
(*                                                                         *)
(* One HTTP request is one Work Item.  Its handler goroutine runs Submit;  *)
(* one of the numWorkers worker goroutines runs processRequest on it.      *)
(***************************************************************************)
EXTENDS Integers, Sequences, FiniteSets, TLC

\* Bounds of the model.
NumWorkers == 1
NumReqs == 3
MaxSize == 3

\* Program constants.
maxRetries == 3
StatusOK == 200
StatusBadRequest == 400
StatusMethodNotAllowed == 405

Items == 1..NumReqs
Workers == 1..NumWorkers

(***************************************************************************)
(* JSON values as encoding/json decodes them into interface{}: a tag and   *)
(* a payload.  A map is a function from its keys, a slice a sequence.      *)
(***************************************************************************)
JNull == [t |-> "null", v |-> 0]
JStr(s) == [t |-> "str", v |-> s]
JNum(n) == [t |-> "num", v |-> n]
JBool(b) == [t |-> "bool", v |-> b]
JObj(m) == [t |-> "obj", v |-> m]
JArr(s) == [t |-> "arr", v |-> s]

EmptyMap == [k \in {} |-> JNull]

RECURSIVE SanitizeJSON(_)
RECURSIVE sanitizeArray(_)

\* sanitizer.go:17 and :23, the two key rules that skip a pair outright.
SkipKey(key, value) ==
    \/ key = "." \/ key = ".."
    \/ key = "lastModifiedDate" /\ (value = JStr("") \/ value = JNull)

\* sanitizer.go:29-63, the value stored under a key that survives.
SanitizeValue(value) ==
    CASE value.t = "obj" -> JObj(SanitizeJSON(value.v))
      [] value.t = "arr" -> JArr(sanitizeArray(value.v))
      [] OTHER -> value

\* Fault: zero values count as empty, as with "omitempty".
KeepValue_falsy(value) ==
    CASE value.t = "obj" -> SanitizeJSON(value.v) # EmptyMap
      [] value.t = "arr" -> Len(sanitizeArray(value.v)) > 0
      [] value.t = "str" -> value.v # ""
      [] OTHER -> value \notin {JNull, JNum(0), JBool(FALSE)}

\* Fault: a nested map or slice is kept when the input one is non-empty,
\* whatever is left of it after sanitizing.
KeepValue_raw(value) ==
    CASE value.t = "obj" -> value.v # EmptyMap
      [] value.t = "arr" -> Len(value.v) > 0
      [] value.t = "str" -> value.v # ""
      [] OTHER -> value # JNull

\* sanitizer.go:29-63, whether the switch stores the pair in result.
KeepValue(value) ==
    CASE value.t = "obj" -> SanitizeJSON(value.v) # EmptyMap
      [] value.t = "arr" -> Len(sanitizeArray(value.v)) > 0
      [] value.t = "str" -> value.v # ""
      [] OTHER -> value # JNull

\* sanitizer.go:10-72: a new map of the pairs that pass the rules.
SanitizeJSON(data) ==
    [key \in {k \in DOMAIN data : ~SkipKey(k, data[k]) /\ KeepValue(data[k])}
        |-> SanitizeValue(data[key])]

\* Fault: every non-nil element is appended, nested maps and slices too,
\* whatever is left of them after sanitizing.
KeepElement_nonnil(value) == value # JNull

\* sanitizer.go:81-108, whether an element is appended to result.
KeepElement(value) ==
    CASE value.t = "obj" -> SanitizeJSON(value.v) # EmptyMap
      [] value.t = "arr" -> Len(sanitizeArray(value.v)) > 0
      [] OTHER -> value # JNull

RECURSIVE sanitizeArray_reversed(_)
\* Fault: a kept element is put in front of result, not appended to it.
sanitizeArray_reversed(arr) ==
    IF arr = <<>> THEN <<>>
    ELSE LET rest == sanitizeArray_reversed(Tail(arr))
         IN IF KeepElement(Head(arr))
            THEN rest \o <<SanitizeValue(Head(arr))>>
            ELSE rest

\* sanitizer.go:75-117: the elements are visited from the first to the last
\* and the kept ones appended to a new slice.
sanitizeArray(arr) ==
    IF arr = <<>> THEN <<>>
    ELSE LET rest == sanitizeArray(Tail(arr))
         IN IF KeepElement(Head(arr))
            THEN <<SanitizeValue(Head(arr))>> \o rest
            ELSE rest


(***************************************************************************)
(* The Documents the sanitizer is checked on: every tree of at most        *)
(* MaxSize values below the root, over the keys and the scalars its        *)
(* branches tell apart.                                                    *)
(***************************************************************************)
SanKeys == <<".", "..", "a", "b", "lastModifiedDate">>
Scalars == {JNull, JStr(""), JStr("x"), JNum(0), JBool(FALSE)}
IsScalar(value) == value.t \notin {"obj", "arr"}

Extend(m, key, value) == [k \in DOMAIN m \cup {key} |-> IF k = key THEN value ELSE m[k]]

RECURSIVE SeqsOfSize(_, _)
RECURSIVE MapsOfSize(_, _, _)
RECURSIVE ValueTable(_)

\* The sequences whose elements are made of n values in all; tbl[k] holds the
\* values made of exactly k values (the value itself counted).
SeqsOfSize(tbl, n) ==
    IF n = 0 THEN {<<>>}
    ELSE UNION {{<<v>> \o s : v \in tbl[k], s \in SeqsOfSize(tbl, n - k)} : k \in 1..n}

\* The maps over the keys SanKeys[j], SanKeys[j+1], ... whose values are made
\* of n values in all.
MapsOfSize(tbl, n, j) ==
    IF j > Len(SanKeys) THEN (IF n = 0 THEN {EmptyMap} ELSE {})
    ELSE MapsOfSize(tbl, n, j + 1) \cup
         UNION {{Extend(m, SanKeys[j], v) : v \in tbl[k], m \in MapsOfSize(tbl, n - k, j + 1)}
                    : k \in 1..n}

ValuesOfSize(tbl, n) ==
    IF n = 1
    THEN Scalars \cup {JObj(EmptyMap), JArr(<<>>)}
    ELSE {JObj(m) : m \in MapsOfSize(tbl, n - 1, 1)}
             \cup {JArr(s) : s \in SeqsOfSize(tbl, n - 1)}

\* <<the values of size 1, ..., the values of size n>>
ValueTable(n) ==
    IF n = 0 THEN <<>>
    ELSE LET tbl == ValueTable(n - 1) IN Append(tbl, ValuesOfSize(tbl, n))

Values == ValueTable(MaxSize)

\* What a key of the root can hold: nothing, or a value of size n.
Absent == [t |-> "absent", v |-> 0]
Choices(n) == IF n = 0 THEN {Absent} ELSE Values[n]
KeyIndex(key) == CHOOSE j \in 1..Len(SanKeys) : SanKeys[j] = key

\* The map that holds vs[j] under SanKeys[j], for the j with a value.
DocOf(vs) ==
    [key \in {SanKeys[j] : j \in {j \in 1..Len(SanKeys) : vs[j] # Absent}} |-> vs[KeyIndex(key)]]

(***************************************************************************)
(* Inputs of one HTTP request and of one delivery attempt.                 *)
(***************************************************************************)
Methods == {"POST", "GET"}

\* The document of the spec's end-to-end example.
Doc1 ==
    [k \in {"name", "empty", "nested"} |->
        CASE k = "name" -> JStr("x")
          [] k = "empty" -> JStr("")
          [] OTHER -> JObj([j \in {"lastModifiedDate"} |-> JNull])]

\* A request body: whether io.ReadAll succeeds on it, whether it is JSON
\* text at all, and the JSON value it holds.
Body(readable, wellformed, json) ==
    [readable |-> readable, wellformed |-> wellformed, json |-> json]

Bodies ==
    { Body(FALSE, FALSE, JNull),
      Body(TRUE, FALSE, JNull),
      Body(TRUE, TRUE, JNull),
      Body(TRUE, TRUE, JStr("x")),
      Body(TRUE, TRUE, JNum(0)),
      Body(TRUE, TRUE, JBool(TRUE)),
      Body(TRUE, TRUE, JArr(<<JNum(0)>>)),
      Body(TRUE, TRUE, JObj(Doc1)) }

NoBody == Body(FALSE, FALSE, JNull)

\* What the transport does on one attempt: client.Do fails, or a response
\* arrives with a status.
Statuses == {200, 399, 400}
Outcome(doErr, status) == [doErr |-> doErr, status |-> status]
Outcomes == {Outcome(TRUE, 0)} \cup {Outcome(FALSE, s) : s \in Statuses}
\* No transport call was made.
NoOutcome == Outcome(FALSE, 0)

\* error values; attempt is the delivery attempt that produced the error.
NoErr == [msg |-> "nil", status |-> 0, attempt |-> 0]
Err(msg, status, attempt) == [msg |-> msg, status |-> status, attempt |-> attempt]

\* Fault: only server errors count as failures.
StatusFailed_5xx(status) == status >= 500

\* client.go:105 "if resp.StatusCode >= 400"
StatusFailed(status) == status >= 400

\* client.go:86-124 sendRequest: the error of one attempt, NoErr for nil.
\* http.NewRequest fails on a config.URL that does not parse, before any
\* transport call.  A status >= 400 gives "elasticsearch error: status=%d"
\* with the response text, or without it when that cannot be read.
sendRequest(urlOK, o, attempt) ==
    IF ~urlOK THEN Err("error creating request", 0, attempt)
    ELSE IF o.doErr THEN Err("error sending request", 0, attempt)
    ELSE IF StatusFailed(o.status)
         THEN Err("elasticsearch error", o.status, attempt)
         ELSE NoErr

\* Fault: the delay follows the last attempt too.
RetryAfter_always(a) == a <= maxRetries

\* client.go:64 "if attempt < maxRetries": sleep and try again.
RetryAfter(a) == a < maxRetries

\* client.go:55 the loop condition "attempt <= maxRetries".
LoopCond(a) == a <= maxRetries

\* Fault: the first error is kept.
NewLastErr_first(old, err) == IF old = NoErr THEN err ELSE old

\* client.go:57 "lastErr = err"
NewLastErr(old, err) == err

\* What IndexDocument returns: nil, or "all retries failed: %w" around a cause.
NilError == [failed |-> FALSE, cause |-> NoErr]
Wrap(e) == [failed |-> TRUE, cause |-> e]

\* Fault: the error of json.Unmarshal is dropped and the map used as it is.
Unmarshal_lenient(b) ==
    IF b.wellformed /\ b.json.t = "obj"
    THEN [err |-> FALSE, data |-> b.json.v]
    ELSE [err |-> FALSE, data |-> EmptyMap]

\* pool.go:112 json.Unmarshal(body, &data) with data a nil map: JSON null
\* leaves the map nil and returns no error; ranging over a nil map is ranging
\* over an empty one.  Any other non-object value is an UnmarshalTypeError.
Unmarshal(b) ==
    IF ~b.wellformed THEN [err |-> TRUE, data |-> EmptyMap]
    ELSE IF b.json.t = "obj" THEN [err |-> FALSE, data |-> b.json.v]
    ELSE IF b.json.t = "null" THEN [err |-> FALSE, data |-> EmptyMap]
    ELSE [err |-> TRUE, data |-> EmptyMap]

\* The keys of the model in byte order, the order json.Marshal writes the
\* keys of a map in.
KeyOrder == <<".", "..", "a", "b", "empty", "lastModifiedDate", "name", "nested">>

RECURSIVE Marshal(_)
RECURSIVE MarshalSeq(_)
RECURSIVE MarshalPairs(_, _)

\* client.go:43 json.Marshal: the JSON text of a value.
MarshalValue(value) ==
    CASE value.t = "null" -> "null"
      [] value.t = "str" -> "\"" \o value.v \o "\""
      [] value.t = "num" -> ToString(value.v)
      [] value.t = "bool" -> (IF value.v THEN "true" ELSE "false")
      [] value.t = "obj" -> Marshal(value.v)
      [] value.t = "arr" -> "[" \o MarshalSeq(value.v) \o "]"

MarshalSeq(s) ==
    IF s = <<>> THEN ""
    ELSE MarshalValue(Head(s)) \o (IF Tail(s) = <<>> THEN "" ELSE "," \o MarshalSeq(Tail(s)))

\* The pairs of m under the keys KeyOrder[j], KeyOrder[j+1], ...
MarshalPairs(m, j) ==
    IF j > Len(KeyOrder) THEN ""
    ELSE LET rest == MarshalPairs(m, j + 1)
         IN IF KeyOrder[j] \in DOMAIN m
            THEN "\"" \o KeyOrder[j] \o "\":" \o MarshalValue(m[KeyOrder[j]])
                     \o (IF rest = "" THEN "" ELSE "," \o rest)
            ELSE rest

Marshal(m) == "{" \o MarshalPairs(m, 1) \o "}"

\* What the ResponseWriter holds: the status code, the "status" field of the
\* JSON body ("error" for the plain-text body of http.Error) and "data".
Response(code, status, data) == [code |-> code, status |-> status, data |-> data]
NoResponse == Response(0, "none", EmptyMap)

(***************************************************************************)
(* State.  Everything indexed by an item is the state of that request: its *)
(* Submit call (subPC), the Request it carries (method, body, W as resp),  *)
(* and the frame of the processRequest / IndexDocument call made on it.    *)
(***************************************************************************)
VARIABLES
    requests,    \* Pool.requests: the buffered channel, oldest item first
    worker,      \* worker[w]: the req a worker's loop body holds, 0 in the range receive
    subPC,       \* where the handler goroutine is: "new", "send" (pool.go:62),
                 \* "recv" (pool.go:63), "returned"
    pc,          \* where processRequest is on the item
    holder,      \* the worker that dequeued the item, 0 before
    method,      \* r.Method, "" until line 87 reads it
    body,        \* r.Body as io.ReadAll finds it
    data,        \* the decoded map of line 111
    cleanData,   \* the sanitized map of line 121
    attempt,     \* IndexDocument's loop variable
    lastErr,     \* IndexDocument's lastErr
    indexErr,    \* what IndexDocument returned
    sentDoc,     \* the map IndexDocument was called with
    esBody,      \* IndexDocument's body, the marshalled document
    sentBody,    \* the body handed to the latest sendRequest call
    resp,        \* what was written to req.W
    nDequeued,   \* how often the item was received from the channel
    nAttempts,   \* sendRequest calls made for the item
    nSleeps,     \* time.Sleep(retryInterval) calls made for the item
    nResponses,  \* responses written to req.W
    nSignals,    \* values sent on req.Done
    outcome,     \* what the transport did on the item's latest attempt
    nFailed,     \* attempts on which the transport call erred or answered >= 400
    nSanitized,  \* SanitizeJSON calls made by processRequest for the item
    urlOK,       \* whether config.URL parses (fixed at configuration load)
    steps,       \* the steps processRequest has taken for the item, in order
    sanIn,       \* the map a SanitizeJSON call under test is given
    sanOut,      \* what that call returned
    sanOut2,     \* what SanitizeJSON returned when given sanOut
    sanPC,       \* how far the calls under test have got
    startPC,     \* how far main has got in the startup sequence
    es           \* whether the pool's es field holds a client

chanVars == <<requests, worker, subPC, holder, nDequeued, nSignals>>
reqVars == <<method, body, data, cleanData>>
idxVars == <<attempt, lastErr, indexErr, sentDoc, esBody, sentBody, nAttempts, nSleeps, outcome, nFailed, nSanitized>>
respVars == <<resp, nResponses>>
sanVars == <<sanIn, sanOut, sanOut2, sanPC>>
startVars == <<startPC, es>>
fixedVars == <<urlOK, sanVars, startVars>>
vars == <<chanVars, pc, reqVars, idxVars, respVars, fixedVars, steps>>

\* NewPool has returned: the channel is empty, the workers wait on it.
PoolInit ==
    /\ startPC = "pool"
    /\ es = FALSE
    /\ requests = <<>>
    /\ worker = [w \in Workers |-> 0]
    /\ subPC = [i \in Items |-> "new"]
    /\ pc = [i \in Items |-> "none"]
    /\ holder = [i \in Items |-> 0]
    /\ method = [i \in Items |-> ""]
    /\ body = [i \in Items |-> NoBody]
    /\ data = [i \in Items |-> EmptyMap]
    /\ cleanData = [i \in Items |-> EmptyMap]
    /\ attempt = [i \in Items |-> 0]
    /\ lastErr = [i \in Items |-> NoErr]
    /\ indexErr = [i \in Items |-> NilError]
    /\ sentDoc = [i \in Items |-> EmptyMap]
    /\ esBody = [i \in Items |-> ""]
    /\ sentBody = [i \in Items |-> ""]
    /\ resp = [i \in Items |-> NoResponse]
    /\ nDequeued = [i \in Items |-> 0]
    /\ nAttempts = [i \in Items |-> 0]
    /\ nSleeps = [i \in Items |-> 0]
    /\ nResponses = [i \in Items |-> 0]
    /\ nSignals = [i \in Items |-> 0]
    /\ outcome = [i \in Items |-> NoOutcome]
    /\ nFailed = [i \in Items |-> 0]
    /\ nSanitized = [i \in Items |-> 0]
    /\ steps = [i \in Items |-> <<>>]

\* No SanitizeJSON call is under test.
SanIdle ==
    /\ sanIn = EmptyMap
    /\ sanOut = EmptyMap
    /\ sanOut2 = EmptyMap
    /\ sanPC = "idle"

Init ==
    /\ PoolInit
    /\ urlOK \in BOOLEAN
    /\ SanIdle

\* Fault: the buffer has one slot more than there are workers.
ChanCap_oneMore == NumWorkers + 1

\* pool.go:28 make(chan *Request, numWorkers)
ChanCap == NumWorkers

\* Fault: the loop body starts processRequest and receives again at once.
WorkerFree_async(w) == TRUE

\* pool.go:70-73: the loop receives again only when processRequest has returned.
WorkerFree(w) == worker[w] = 0

\* Fault: one done channel shared by all Submit calls.
Receivers_shared(i) == Items

\* pool.go:56-60: done is made by the Submit call and stored in its own req, so
\* the only goroutine receiving from item i's Done is item i's submitter.
Receivers(i) == {i}

\* server.go:19-25 NewServer, called at sanitizer.go:167.
NewServer ==
    /\ startPC = "pool"
    /\ startPC' = "server"
    /\ UNCHANGED <<chanVars, pc, reqVars, idxVars, respVars, steps, urlOK, sanVars, es>>

\* server.go:34-35 and pool.go:44-47: Start makes the client and stores it in
\* the pool.
SetElasticsearchClient ==
    /\ startPC = "server"
    /\ es' = TRUE
    /\ startPC' = "client"
    /\ UNCHANGED <<chanVars, pc, reqVars, idxVars, respVars, steps, urlOK, sanVars>>

\* server.go:38-50: the handler is registered and http.ListenAndServe opens
\* the listener, or fails to and returns.
ListenAndServe ==
    /\ startPC = "client"
    /\ \E opened \in BOOLEAN : startPC' = IF opened THEN "listening" ELSE "failed"
    /\ UNCHANGED <<chanVars, pc, reqVars, idxVars, respVars, steps, urlOK, sanVars, es>>

\* Fault: the listener is opened when the pool is made, before Start.
Accepting_fromStart == TRUE

\* server.go:38-44: connections are accepted, and handleRequest called, only
\* by the http.ListenAndServe call that ends Start.
Accepting == startPC = "listening"

\* server.go:55-62 handleRequest, pool.go:49-61: a request arrives and its
\* handler goroutine builds the Request.  Items are numbered as they arrive.
HandleRequest(i) ==
    /\ Accepting
    /\ subPC[i] = "new"
    /\ \A j \in Items : j < i => subPC[j] # "new"
    /\ subPC' = [subPC EXCEPT ![i] = "send"]
    /\ UNCHANGED <<requests, worker, holder, nDequeued, nSignals, pc, reqVars, idxVars, respVars, fixedVars, steps>>

\* Fault: the send never blocks (an unbounded buffer).
CanSend_unbounded == TRUE

\* A send on a buffered channel goes through when the buffer has room.
CanSend == Len(requests) < ChanCap

\* pool.go:62 p.requests <- req: blocks while the buffer is full.
Enqueue(i) ==
    /\ subPC[i] = "send"
    /\ CanSend
    /\ requests' = Append(requests, i)
    /\ subPC' = [subPC EXCEPT ![i] = "recv"]
    /\ UNCHANGED <<worker, holder, nDequeued, nSignals, pc, reqVars, idxVars, respVars, fixedVars, steps>>

\* pool.go:70 for req := range p.requests, and the call of line 72.
Dequeue(w) ==
    /\ WorkerFree(w)
    /\ requests # <<>>
    /\ LET i == Head(requests)
       IN /\ requests' = Tail(requests)
          /\ worker' = [worker EXCEPT ![w] = i]
          /\ holder' = [holder EXCEPT ![i] = w]
          /\ nDequeued' = [nDequeued EXCEPT ![i] = @ + 1]
          /\ pc' = [pc EXCEPT ![i] = "method"]
    /\ UNCHANGED <<subPC, nSignals, reqVars, idxVars, respVars, fixedVars, steps>>

\* Fault: the send on req.Done is the last statement of processRequest, not
\* deferred, so the early returns skip it.
ExitPC_notDeferred(r) == IF r.code = StatusOK THEN "defer" ELSE "exit"

\* pool.go:77-79: the send on req.Done is deferred, so every return of
\* processRequest, the early ones too, goes through it.
ExitPC(r) == "defer"

\* http.Error / json.NewEncoder(w).Encode on req.W, then the return.
Write(i, r) ==
    /\ resp' = [resp EXCEPT ![i] = r]
    /\ nResponses' = [nResponses EXCEPT ![i] = @ + 1]
    /\ pc' = [pc EXCEPT ![i] = ExitPC(r)]

\* Fault: the method is not checked.
MethodAllowed_any(m) == TRUE

\* pool.go:87 "if r.Method != http.MethodPost" is the rejection.
MethodAllowed(m) == m = "POST"

\* Fault: the answer is "warning" as well while other requests wait in the
\* channel.
IndexResponse_busy(e, clean) ==
    IF e.failed \/ requests # <<>>
    THEN Response(StatusOK, "warning", clean)
    ELSE Response(StatusOK, "success", clean)

\* Fault: a delivery failure is reported as a server error.
IndexResponse_500(e, clean) ==
    IF e.failed
    THEN Response(500, "error", EmptyMap)
    ELSE Response(StatusOK, "success", clean)

\* pool.go:127-144: the body Encode writes, with its implicit 200.
IndexResponse(e, clean) ==
    IF e.failed
    THEN Response(StatusOK, "warning", clean)
    ELSE Response(StatusOK, "success", clean)

\* pool.go:127 IndexDocument(cleanData): of the decoded map and the sanitized
\* one, the one handed to the Indexing Client.
IndexedDoc(raw, clean) == clean

\* Fault: the response echoes the decoded map, as the handler of src/main.go does.
EchoedData_raw(raw, clean) == raw

\* pool.go:134 and 143 "data": cleanData, in the warning and in the success body.
EchoedData(raw, clean) == clean

\* The steps s, taken in this order, are added to the record of item i.
Log(i, s) == steps' = [steps EXCEPT ![i] = @ \o s]

\* pool.go:87-93
CheckMethod(i) ==
    /\ pc[i] = "method"
    /\ \E m \in Methods :
        /\ method' = [method EXCEPT ![i] = m]
        /\ IF ~MethodAllowed(m)
           THEN /\ Write(i, Response(StatusMethodNotAllowed, "error", EmptyMap))
                /\ Log(i, <<"method", "write">>)
           ELSE /\ pc' = [pc EXCEPT ![i] = "read"]
                /\ Log(i, <<"method">>)
                /\ UNCHANGED respVars
    /\ UNCHANGED <<chanVars, body, data, cleanData, idxVars, fixedVars>>

\* pool.go:96-103
ReadBody(i) ==
    /\ pc[i] = "read"
    /\ \E b \in Bodies :
        /\ body' = [body EXCEPT ![i] = b]
        /\ IF ~b.readable
           THEN /\ Write(i, Response(StatusBadRequest, "error", EmptyMap))
                /\ Log(i, <<"read", "write">>)
           ELSE /\ pc' = [pc EXCEPT ![i] = "decode"]
                /\ Log(i, <<"read">>)
                /\ UNCHANGED respVars
    /\ UNCHANGED <<chanVars, method, data, cleanData, idxVars, fixedVars>>

\* Fault: the decoded map goes to IndexDocument without the SanitizeJSON call.
AfterDecode_unsanitized == "index"

\* pool.go:120-121: the statement after the decode is the SanitizeJSON call.
AfterDecode == "sanitize"

\* pool.go:111-118
Decode(i) ==
    /\ pc[i] = "decode"
    /\ LET u == Unmarshal(body[i])
       IN IF u.err
          THEN /\ Write(i, Response(StatusBadRequest, "error", EmptyMap))
               /\ Log(i, <<"decode", "write">>)
               /\ UNCHANGED data
          ELSE /\ data' = [data EXCEPT ![i] = u.data]
               /\ pc' = [pc EXCEPT ![i] = AfterDecode]
               /\ Log(i, <<"decode">>)
               /\ UNCHANGED respVars
    /\ UNCHANGED <<chanVars, method, body, cleanData, idxVars, fixedVars>>

\* Fault: SanitizeJSON deletes the pruned pairs from the map it is given.
InputAfterSanitize_inplace(d) == SanitizeJSON(d)

\* sanitizer.go:15-64: data is ranged over and read; every assignment is to
\* result, a map made by the call, so the caller's map is what it was.
InputAfterSanitize(d) == d

\* client.go:56 sendRequest(body): the bytes marshalled before the loop, on
\* every attempt.
AttemptBody(marshalled, a) == marshalled

\* pool.go:121, and the call of line 127 up to the loop head, client.go:43-55
\* (json.Marshal cannot fail on a map decoded from JSON text).  With p.es nil
\* the call panics at client.go:48, where c.config is read.
Sanitize(i) ==
    /\ pc[i] = "sanitize"
    /\ data' = [data EXCEPT ![i] = InputAfterSanitize(@)]
    /\ esBody' = [esBody EXCEPT ![i] = Marshal(IndexedDoc(data[i], SanitizeJSON(data[i])))]
    /\ cleanData' = [cleanData EXCEPT ![i] = SanitizeJSON(data[i])]
    /\ sentDoc' = [sentDoc EXCEPT ![i] = IndexedDoc(data[i], SanitizeJSON(data[i]))]
    /\ attempt' = [attempt EXCEPT ![i] = 1]
    /\ lastErr' = [lastErr EXCEPT ![i] = NoErr]
    /\ nSanitized' = [nSanitized EXCEPT ![i] = @ + 1]
    /\ pc' = [pc EXCEPT ![i] = IF es THEN "index" ELSE "panic"]
    /\ Log(i, <<"sanitize">>)
    /\ UNCHANGED <<chanVars, method, body, indexErr, sentBody, nAttempts, nSleeps, outcome, nFailed, fixedVars, respVars>>

\* IndexDocument returns e to pool.go:127; its locals are gone.
Return(i, e) ==
    /\ indexErr' = [indexErr EXCEPT ![i] = e]
    /\ attempt' = [attempt EXCEPT ![i] = 0]
    /\ lastErr' = [lastErr EXCEPT ![i] = NoErr]
    /\ esBody' = [esBody EXCEPT ![i] = ""]
    /\ pc' = [pc EXCEPT ![i] = "respond"]

\* client.go:55-75, one pass of the loop body: one sendRequest call, then
\* "return nil", or lastErr = err and either the way to time.Sleep or the
\* break to the return of line 83.
Attempt(i) ==
    /\ pc[i] = "index"
    /\ \E o \in (IF urlOK THEN Outcomes ELSE {NoOutcome}) :
        LET err == sendRequest(urlOK, o, attempt[i])
        IN /\ outcome' = [outcome EXCEPT ![i] = o]
           /\ Log(i, <<"attempt">>)
           /\ sentBody' = [sentBody EXCEPT ![i] = AttemptBody(esBody[i], attempt[i])]
           /\ nAttempts' = [nAttempts EXCEPT ![i] = @ + 1]
           /\ nFailed' = [nFailed EXCEPT ![i] =
                             IF urlOK /\ (o.doErr \/ o.status >= 400) THEN @ + 1 ELSE @]
           /\ IF err # NoErr
              THEN IF RetryAfter(attempt[i])
                   THEN /\ lastErr' = [lastErr EXCEPT ![i] = NewLastErr(@, err)]
                        /\ pc' = [pc EXCEPT ![i] = "sleep"]
                        /\ UNCHANGED <<indexErr, attempt, esBody>>
                   ELSE Return(i, Wrap(NewLastErr(lastErr[i], err)))
              ELSE Return(i, NilError)
    /\ UNCHANGED <<chanVars, reqVars, sentDoc, nSleeps, nSanitized, fixedVars, respVars>>

\* client.go:65-66 time.Sleep(retryInterval); continue, then the loop's
\* attempt++ and its condition (line 55).
Sleep(i) ==
    /\ pc[i] = "sleep"
    /\ nSleeps' = [nSleeps EXCEPT ![i] = @ + 1]
    /\ Log(i, <<"sleep">>)
    /\ IF LoopCond(attempt[i] + 1)
       THEN /\ attempt' = [attempt EXCEPT ![i] = @ + 1]
            /\ pc' = [pc EXCEPT ![i] = "index"]
            /\ UNCHANGED <<indexErr, lastErr, esBody>>
       ELSE Return(i, Wrap(lastErr[i]))
    /\ UNCHANGED <<chanVars, reqVars, sentDoc, sentBody, nAttempts, outcome, nFailed, nSanitized, fixedVars, respVars>>

\* pool.go:127-144
Respond(i) ==
    /\ pc[i] = "respond"
    /\ Write(i, IndexResponse(indexErr[i], EchoedData(data[i], cleanData[i])))
    /\ Log(i, <<"write">>)
    /\ UNCHANGED <<chanVars, reqVars, idxVars, fixedVars>>

\* pool.go:77-79 req.Done <- true meeting pool.go:63 <-done on the unbuffered
\* channel.  Both calls return: processRequest to the worker's loop, Submit to
\* handleRequest, which ends the request; the Request, its ResponseWriter and
\* the frames of the calls are dropped.
Signal(i) ==
    /\ pc[i] = "defer"
    /\ \E j \in Receivers(i) :
        /\ subPC[j] = "recv"
        /\ subPC' = [subPC EXCEPT ![j] = "returned"]
    /\ nSignals' = [nSignals EXCEPT ![i] = @ + 1]
    /\ worker' = [w \in Workers |-> IF worker[w] = i THEN 0 ELSE worker[w]]
    /\ pc' = [pc EXCEPT ![i] = "exit"]
    /\ method' = [method EXCEPT ![i] = ""]
    /\ body' = [body EXCEPT ![i] = NoBody]
    /\ data' = [data EXCEPT ![i] = EmptyMap]
    /\ cleanData' = [cleanData EXCEPT ![i] = EmptyMap]
    /\ attempt' = [attempt EXCEPT ![i] = 0]
    /\ lastErr' = [lastErr EXCEPT ![i] = NoErr]
    /\ indexErr' = [indexErr EXCEPT ![i] = NilError]
    /\ steps' = [steps EXCEPT ![i] = <<>>]
    /\ sentDoc' = [sentDoc EXCEPT ![i] = EmptyMap]
    /\ esBody' = [esBody EXCEPT ![i] = ""]
    /\ sentBody' = [sentBody EXCEPT ![i] = ""]
    /\ outcome' = [outcome EXCEPT ![i] = NoOutcome]
    /\ nAttempts' = [nAttempts EXCEPT ![i] = 0]
    /\ nSleeps' = [nSleeps EXCEPT ![i] = 0]
    /\ nFailed' = [nFailed EXCEPT ![i] = 0]
    /\ nSanitized' = [nSanitized EXCEPT ![i] = 0]
    /\ resp' = [resp EXCEPT ![i] = NoResponse]
    /\ holder' = [holder EXCEPT ![i] = 0]
    /\ UNCHANGED <<requests, nDequeued, nResponses, fixedVars>>

Next ==
    \/ NewServer
    \/ SetElasticsearchClient
    \/ ListenAndServe
    \/ \E i \in Items : HandleRequest(i)
    \/ \E i \in Items : Enqueue(i)
    \/ \E w \in Workers : Dequeue(w)
    \/ \E i \in Items : CheckMethod(i)
    \/ \E i \in Items : ReadBody(i)
    \/ \E i \in Items : Decode(i)
    \/ \E i \in Items : Sanitize(i)
    \/ \E i \in Items : Attempt(i)
    \/ \E i \in Items : Sleep(i)
    \/ \E i \in Items : Respond(i)
    \/ \E i \in Items : Signal(i)

Spec == Init /\ [][Next]_vars

(***************************************************************************)
(* The sanitizer on its own: SanitizeJSON is called on a Document, then    *)
(* on its own result.                                                      *)
(***************************************************************************)
SanInit ==
    /\ PoolInit
    /\ urlOK = TRUE
    /\ \E n1 \in 0..MaxSize : \E n2 \in 0..(MaxSize - n1) : \E n3 \in 0..(MaxSize - n1 - n2) :
       \E n4 \in 0..(MaxSize - n1 - n2 - n3) : \E n5 \in 0..(MaxSize - n1 - n2 - n3 - n4) :
       \E v1 \in Choices(n1), v2 \in Choices(n2), v3 \in Choices(n3),
          v4 \in Choices(n4), v5 \in Choices(n5) :
            sanIn = DocOf(<<v1, v2, v3, v4, v5>>)
    /\ sanOut = EmptyMap
    /\ sanOut2 = EmptyMap
    /\ sanPC = "call"

\* sanitizer.go:10-72 SanitizeJSON(sanIn)
SanitizeCall ==
    /\ sanPC = "call"
    /\ sanOut' = SanitizeJSON(sanIn)
    /\ sanPC' = "once"
    /\ UNCHANGED <<chanVars, pc, reqVars, idxVars, respVars, steps, urlOK, startVars, sanIn, sanOut2>>

\* sanitizer.go:10-72 SanitizeJSON(sanOut)
SanitizeAgain ==
    /\ sanPC = "once"
    /\ sanOut2' = SanitizeJSON(sanOut)
    /\ sanPC' = "twice"
    /\ UNCHANGED <<chanVars, pc, reqVars, idxVars, respVars, steps, urlOK, startVars, sanIn, sanOut>>

SanNext == SanitizeCall \/ SanitizeAgain

SanSpec == SanInit /\ [][SanNext]_vars

\* The Go scheduler runs every runnable goroutine: a worker or a submitter
\* that can take its next step takes it.  Arrivals are the environment's.
Fairness ==
    /\ \A i \in Items : WF_vars(Enqueue(i))
    /\ \A w \in Workers : WF_vars(Dequeue(w))
    /\ \A i \in Items :
        WF_vars(CheckMethod(i) \/ ReadBody(i) \/ Decode(i) \/ Sanitize(i)
                \/ Attempt(i) \/ Sleep(i) \/ Respond(i) \/ Signal(i))

FairSpec == Spec /\ Fairness

(***************************************************************************)
(* Properties.                                                             *)
(***************************************************************************)
\* Inside processRequest: dequeued, completion not yet signalled.
InProcess(i) == pc[i] \notin {"none", "exit"}
InFlight == {i \in Items : InProcess(i)}
Queued(i) == \E k \in 1..Len(requests) : requests[k] = i
AllBusy == \A w \in Workers : worker[w] # 0

\* C1: each worker holds at most one Work Item, and at most NumWorkers Work
\* Items are inside processRequest at once, whatever the number of submitters.
C1_InFlightBound ==
    /\ Cardinality(InFlight) <= NumWorkers
    /\ \A w \in Workers : Cardinality({i \in InFlight : holder[i] = w}) <= 1
    /\ \A i \in InFlight : holder[i] \in Workers /\ worker[holder[i]] = i

\* All workers are busy while further submitters are queued or blocked.
C1_Witness ==
    /\ Cardinality(InFlight) = NumWorkers
    /\ \E i \in Items : Queued(i)
    /\ \E i \in Items : subPC[i] = "send"

\* C2: a Submit call that has returned has had its own item processed to a
\* written response and its own completion signal sent; it is neither queued
\* nor in processing.
C2_SubmitReturnsAfterDone ==
    \A i \in Items :
        subPC[i] = "returned" =>
            /\ pc[i] = "exit"
            /\ ~Queued(i)
            /\ nResponses[i] = 1
            /\ nSignals[i] = 1

\* One Submit has returned while another item's signal is still pending.
C2_Witness ==
    \E i, j \in Items :
        /\ subPC[i] = "returned"
        /\ pc[j] = "defer" /\ subPC[j] = "recv"

\* C3: an item is received from the channel at most once and by one worker,
\* gets one response, and has its completion signalled once, on whichever
\* path processRequest returns.
C3_ExactlyOnce ==
    \A i \in Items :
        /\ nDequeued[i] <= 1 /\ nResponses[i] <= 1 /\ nSignals[i] <= 1
        /\ Cardinality({k \in 1..Len(requests) : requests[k] = i}) <= 1
        /\ Queued(i) => nDequeued[i] = 0 /\ pc[i] = "none"
        /\ InProcess(i) =>
              /\ nDequeued[i] = 1 /\ nSignals[i] = 0
              /\ nResponses[i] = (IF pc[i] = "defer" THEN 1 ELSE 0)
        /\ pc[i] = "exit" =>
              nDequeued[i] = 1 /\ nResponses[i] = 1 /\ nSignals[i] = 1

\* One item is done, another has taken the early 405 return and waits to signal.
C3_Witness ==
    \E i, j \in Items :
        /\ pc[i] = "exit" /\ nSignals[i] = 1
        /\ pc[j] = "defer" /\ resp[j].code = StatusMethodNotAllowed

\* A submitter in its send has no response and is in no queue yet, an item
\* once enqueued is queued or in processing until its Submit returns, and the
\* only responses are those of processRequest.
C4_Blocked ==
    \A i \in Items :
        /\ subPC[i] = "send" =>
              pc[i] = "none" /\ ~Queued(i) /\ nResponses[i] = 0 /\ resp[i] = NoResponse
        /\ subPC[i] = "recv" => Queued(i) \/ InProcess(i)
        /\ resp[i].code \in {0, StatusOK, StatusBadRequest, StatusMethodNotAllowed}

\* No step takes a submitter out of its send while the queue holds
\* NumWorkers items.
C4_StaysBlocked ==
    \A i \in Items :
        subPC[i] = "send" /\ Len(requests) >= NumWorkers => subPC'[i] = "send"

\* C4: a submitter that finds the queue full stays blocked in its send until
\* there is room; it is not rejected, dropped or answered because of load, and
\* then gets one of the responses of processRequest.
C4_Backpressure == []C4_Blocked /\ [][C4_StaysBlocked]_vars

\* All workers busy, the queue full, and a further submitter blocked.
C4_Witness ==
    /\ AllBusy
    /\ Len(requests) = NumWorkers
    /\ \E i \in Items : subPC[i] = "send" /\ i > 2 * NumWorkers

\* C5: under fair scheduling every Submit call returns.
C5_SubmitReturns ==
    \A i \in Items : (subPC[i] = "send") ~> (subPC[i] = "returned")

\* More than 2 * NumWorkers submissions have all returned.
C5_Witness ==
    /\ NumReqs > 2 * NumWorkers
    /\ \A i \in Items : subPC[i] = "returned"

\* IndexDocument has returned to processRequest for item i.
Indexed(i) == pc[i] = "respond" \/ (pc[i] = "defer" /\ resp[i].code = StatusOK)

\* The transport call of the item's latest attempt erred or answered >= 400.
TransportFailed(i) == outcome[i].doErr \/ outcome[i].status >= 400

\* The loop counted the item's latest attempt as failed.
CountedFailed(i) == pc[i] = "sleep" \/ (pc[i] = "respond" /\ indexErr[i].failed)

\* C6: when every attempt fails at the transport, IndexDocument returns an
\* error after exactly maxRetries attempts and maxRetries - 1 delays; the
\* delays lie between attempts, and there is never a further attempt.
C6_RetryExhaustion ==
    \A i \in Items :
        /\ nAttempts[i] <= maxRetries /\ nSleeps[i] <= maxRetries - 1
        /\ pc[i] = "sleep" => nSleeps[i] = nAttempts[i] - 1 /\ nAttempts[i] < maxRetries
        /\ pc[i] = "index" => nSleeps[i] = nAttempts[i] /\ nAttempts[i] < maxRetries
        /\ Indexed(i) /\ nFailed[i] = nAttempts[i] =>
              /\ nAttempts[i] = maxRetries
              /\ nSleeps[i] = maxRetries - 1
              /\ indexErr[i].failed

\* Three attempts answered with a failure status, two delays, an error.
C6_Witness ==
    \E i \in Items :
        /\ pc[i] = "respond" /\ indexErr[i].failed
        /\ nFailed[i] = maxRetries /\ nAttempts[i] = maxRetries /\ nSleeps[i] = maxRetries - 1
        /\ outcome[i].status = 400

\* A success ends the loop at once, after k attempts and
\* k - 1 delays, and earlier attempts all failed.
C7_SuccessEndsLoop ==
    \A i \in Items :
        /\ pc[i] \in {"index", "sleep"} /\ urlOK => nFailed[i] = nAttempts[i]
        /\ Indexed(i) /\ ~indexErr[i].failed =>
              /\ ~TransportFailed(i) /\ urlOK
              /\ nAttempts[i] \in 1..maxRetries
              /\ nFailed[i] = nAttempts[i] - 1
              /\ nSleeps[i] = nAttempts[i] - 1

\* C7 as claimed: an attempt counts as failed exactly when the transport call
\* erred or the status was >= 400.
C7_FailedIffTransport ==
    /\ \A i \in Items :
          pc[i] \in {"sleep", "respond"} => (CountedFailed(i) <=> TransportFailed(i))
    /\ C7_SuccessEndsLoop

\* C7 amended: an attempt also counts as failed when the request cannot be
\* built from the configured URL, in which case no transport call is made.
C7_FailedIffNoSuccess ==
    /\ \A i \in Items :
          pc[i] \in {"sleep", "respond"} =>
              (CountedFailed(i) <=> (~urlOK \/ TransportFailed(i)))
    /\ C7_SuccessEndsLoop

\* Success on the second attempt, one delay, after a failed first attempt.
C7_Witness ==
    \E i \in Items :
        /\ pc[i] = "respond" /\ ~indexErr[i].failed
        /\ nAttempts[i] = 2 /\ nSleeps[i] = 1 /\ nFailed[i] = 1
        /\ outcome[i].status = 399

\* C8: the error IndexDocument returns wraps the error of the last attempt.
C8_LastCause ==
    \A i \in Items :
        Indexed(i) /\ indexErr[i].failed =>
            /\ indexErr[i].cause.attempt = maxRetries
            /\ indexErr[i].cause = sendRequest(urlOK, outcome[i], maxRetries)

\* The third attempt failed on a status after at least one transport error.
C8_Witness ==
    \E i \in Items :
        /\ pc[i] = "respond" /\ indexErr[i].failed
        /\ indexErr[i].cause = Err("elasticsearch error", 400, maxRetries)
        /\ nFailed[i] = maxRetries

\* C9: a delivery failure is answered with 200 and status "warning" around
\* the sanitized document, after no more than maxRetries attempts.
C9_WarningOnFailure ==
    \A i \in Items :
        /\ nAttempts[i] <= maxRetries
        /\ pc[i] = "defer" /\ indexErr[i].failed =>
              /\ resp[i] = Response(StatusOK, "warning", SanitizeJSON(data[i]))
              /\ nAttempts[i] = maxRetries

\* A warning whose data is the sanitized form of a document that needed it.
C9_Witness ==
    \E i \in Items :
        /\ pc[i] = "defer" /\ indexErr[i].failed
        /\ resp[i].status = "warning"
        /\ data[i] = Doc1 /\ resp[i].data = [k \in {"name"} |-> JStr("x")]

\* An item whose method is not POST has its 405 and nothing else: no body
\* read, no sanitization, no delivery attempt; its signal is pending.
C10_Rejected ==
    \A i \in Items :
        method[i] \notin {"", "POST"} =>
            /\ pc[i] = "defer"
            /\ resp[i] = Response(StatusMethodNotAllowed, "error", EmptyMap)
            /\ nResponses[i] = 1
            /\ body[i] = NoBody
            /\ nSanitized[i] = 0 /\ nAttempts[i] = 0
            /\ subPC[i] = "recv" /\ nSignals[i] = 0

\* The only step that follows is the completion signal.
C10_ThenSignalled ==
    \A i \in Items :
        method[i] \notin {"", "POST"} /\ method'[i] # method[i] =>
            nSignals'[i] = 1 /\ subPC'[i] = "returned"

\* C10: an item whose method is not POST gets 405 with no sanitization and no
\* delivery attempt, and its completion signal is still sent.
C10_MethodNotAllowed == []C10_Rejected /\ [][C10_ThenSignalled]_vars

\* A GET has been answered and its submitter is about to be released.
C10_Witness ==
    \E i \in Items :
        /\ method[i] = "GET" /\ resp[i].code = StatusMethodNotAllowed
        /\ pc[i] = "defer" /\ subPC[i] = "recv"

\* The body of a POST could not be read, or is not JSON text.
BadBody(i) == method[i] = "POST" /\ (~body[i].readable \/ ~body[i].wellformed)
ClientInputError(i) == resp[i].code \in {StatusBadRequest, StatusMethodNotAllowed}

\* C11: a Work Item whose body cannot be read or is not JSON text is answered
\* with 400, has made no delivery attempt, no sleep and no sanitizer call, and
\* has nothing left to do but signal completion; a finished Work Item has made
\* 0 delivery attempts exactly when it ended with a client input error, and
\* between 1 and maxRetries otherwise.
C11_InputErrors ==
    \A i \in Items :
        /\ pc[i] \in {"sanitize", "index", "sleep", "respond"} => ~BadBody(i)
        /\ pc[i] = "defer" =>
            /\ BadBody(i) =>
                /\ resp[i].code = StatusBadRequest
                /\ nAttempts[i] = 0 /\ nSleeps[i] = 0 /\ nSanitized[i] = 0
                /\ nResponses[i] = 1
            /\ nAttempts[i] = 0 <=> ClientInputError(i)
            /\ ~ClientInputError(i) => nAttempts[i] \in 1..maxRetries
        /\ ClientInputError(i) => pc[i] = "defer"

\* A POST whose body is not JSON text has been answered with 400 without any
\* delivery attempt and awaits the completion signal.
C11_Witness ==
    \E i \in Items :
        /\ pc[i] = "defer" /\ BadBody(i) /\ body[i].readable
        /\ resp[i].code = StatusBadRequest /\ nAttempts[i] = 0

\* The item got past decoding: IndexDocument has been called for it.
Decoded(i) == pc[i] \in {"index", "sleep", "respond"} \/ (pc[i] = "defer" /\ ~ClientInputError(i))

\* C12: for a POST with a decodable body the document handed to the Indexing
\* Client is SanitizeJSON of the decoded body, the data of the response is that
\* same sanitized document, and the response says "success" exactly when
\* IndexDocument returned no error ("warning" otherwise).
C12_SanitizedEcho ==
    \A i \in Items :
        /\ Decoded(i) => sentDoc[i] = SanitizeJSON(data[i])
        /\ pc[i] = "defer" /\ Decoded(i) =>
            /\ resp[i].data = SanitizeJSON(data[i])
            /\ resp[i].data = sentDoc[i]
            /\ resp[i].status \in {"success", "warning"}
            /\ resp[i].status = "success" <=> ~indexErr[i].failed

\* A decoded document that sanitization changes has been indexed and echoed.
C12_Witness ==
    \E i \in Items :
        /\ pc[i] = "defer" /\ data[i] = Doc1 /\ SanitizeJSON(Doc1) # Doc1
        /\ resp[i].status = "success" /\ resp[i].data = SanitizeJSON(Doc1)

\* C13: sanitizing is idempotent: SanitizeJSON applied to the result of
\* SanitizeJSON returns that result, for every Document of the bounded set.
C13_Idempotent == sanPC = "twice" => sanOut2 = sanOut

\* The second call has returned on a Document the first call had pruned, but
\* not to nothing.
C13_Witness ==
    /\ sanPC = "twice"
    /\ sanOut # sanIn /\ sanOut # EmptyMap
    /\ \E key \in DOMAIN sanOut : sanOut[key].t = "arr"

RECURSIVE CleanMap(_)
RECURSIVE CleanSeq(_)
RECURSIVE MapVanishes(_)
RECURSIVE SeqVanishes(_)
DotKey(key) == key \in {".", ".."}
EmptyValue(value) == value \in {JStr(""), JNull, JObj(EmptyMap), JArr(<<>>)}
EmptyContainer(value) == value \in {JObj(EmptyMap), JArr(<<>>)}

\* No dot key and no empty value under a key, no empty container in a
\* sequence, at every depth.
CleanMap(m) ==
    \A key \in DOMAIN m :
        /\ ~DotKey(key) /\ ~EmptyValue(m[key])
        /\ m[key].t = "obj" => CleanMap(m[key].v)
        /\ m[key].t = "arr" => CleanSeq(m[key].v)

CleanSeq(s) ==
    \A j \in 1..Len(s) :
        /\ ~EmptyContainer(s[j])
        /\ s[j].t = "obj" => CleanMap(s[j].v)
        /\ s[j].t = "arr" => CleanSeq(s[j].v)

\* Nothing of the container is left once the pruning rules have been applied
\* bottom-up.
MapVanishes(m) ==
    \A key \in DOMAIN m :
        \/ DotKey(key) \/ m[key] \in {JNull, JStr("")}
        \/ m[key].t = "obj" /\ MapVanishes(m[key].v)
        \/ m[key].t = "arr" /\ SeqVanishes(m[key].v)

SeqVanishes(s) ==
    \A j \in 1..Len(s) :
        \/ s[j] = JNull
        \/ s[j].t = "obj" /\ MapVanishes(s[j].v)
        \/ s[j].t = "arr" /\ SeqVanishes(s[j].v)

\* C14: at every depth of the result of SanitizeJSON, inside sequences too,
\* no key holds an empty string, null, an empty Document or an empty sequence,
\* no key is "." or "..", and no sequence holds an empty Document or an empty
\* sequence; a key of the input whose Document or sequence loses everything
\* to the pruning rules, through any number of levels, is not a key of the
\* result.
C14_NoEmptyValues ==
    sanPC \in {"once", "twice"} =>
        /\ CleanMap(sanOut)
        /\ \A key \in DOMAIN sanIn :
            ( \/ sanIn[key].t = "obj" /\ MapVanishes(sanIn[key].v)
              \/ sanIn[key].t = "arr" /\ SeqVanishes(sanIn[key].v) )
            => key \notin DOMAIN sanOut

\* A Document inside a sequence loses its only pair, the sequence its only
\* element, and the root its only key.
C14_Witness ==
    /\ sanPC = "once"
    /\ sanIn = [key \in {"a"} |-> JArr(<<JObj([k \in {"b"} |-> JStr("")])>>)]
    /\ sanOut = EmptyMap

RECURSIVE Preserved(_, _)
\* A boolean, a number or a non-empty string.
KeptScalar(value) == IsScalar(value) /\ value \notin {JNull, JStr("")}
HasKeptPair(m) == \E key \in DOMAIN m : ~DotKey(key) /\ KeptScalar(m[key])

\* Every pair of in the rules do not prune is in out, at every depth of
\* nested Documents.
Preserved(in, out) ==
    /\ DOMAIN out \subseteq DOMAIN in
    /\ \A key \in DOMAIN in :
        ~DotKey(key) =>
            /\ KeptScalar(in[key]) => key \in DOMAIN out /\ out[key] = in[key]
            /\ in[key].t = "obj" /\ HasKeptPair(in[key].v) => key \in DOMAIN out
            /\ in[key].t = "obj" /\ key \in DOMAIN out =>
                out[key].t = "obj" /\ Preserved(in[key].v, out[key].v)
            /\ key \notin DOMAIN out =>
                \/ in[key] \in {JNull, JStr("")}
                \/ in[key].t = "obj" /\ MapVanishes(in[key].v)
                \/ in[key].t = "arr" /\ SeqVanishes(in[key].v)

\* C15: SanitizeJSON removes nothing beyond its pruning rules: under a key
\* other than "." and "..", false, 0, and a non-empty string (under
\* "lastModifiedDate" too) are in the result unchanged, at every depth; a
\* Document holding such a pair is kept; a key is missing from the result only
\* for a dot key, null, an empty string or a container that loses everything;
\* {"a": false, "b": 0} is returned as it is.
C15_KeepsTheRest ==
    sanPC \in {"once", "twice"} =>
        /\ Preserved(sanIn, sanOut)
        /\ \A key \in DOMAIN sanIn :
            key = "lastModifiedDate" /\ sanIn[key] = JStr("x") =>
                key \in DOMAIN sanOut /\ sanOut[key] = JStr("x")
        /\ sanIn = [key \in {"a", "b"} |-> IF key = "a" THEN JBool(FALSE) ELSE JNum(0)]
            => sanOut = sanIn

\* {"a": false, "b": 0} has been sanitized to itself.
C15_Witness ==
    /\ sanPC = "once"
    /\ sanIn = [key \in {"a", "b"} |-> IF key = "a" THEN JBool(FALSE) ELSE JNum(0)]
    /\ sanOut = sanIn

RECURSIVE NoEmptyStringInSeqs(_)
\* No sequence of the value, at any depth, has "" as an element.
NoEmptyStringInSeqs(value) ==
    CASE value.t = "obj" -> \A key \in DOMAIN value.v : NoEmptyStringInSeqs(value.v[key])
      [] value.t = "arr" -> \A j \in 1..Len(value.v) :
                               value.v[j] # JStr("") /\ NoEmptyStringInSeqs(value.v[j])
      [] OTHER -> TRUE

\* C16: the scalar elements of a sequence pass the emptiness filter of keyed
\* scalars, so no sequence of the result of SanitizeJSON holds an empty
\* string (nor a null).  sanitizeArray appends every non-nil scalar, the
\* empty string too: {"a": [""]} is returned as it is.
C16_NoEmptyStringElements ==
    sanPC \in {"once", "twice"} =>
        /\ NoEmptyStringInSeqs(JObj(sanOut))
        /\ \A key \in DOMAIN sanOut :
            sanOut[key].t = "arr" => \A j \in 1..Len(sanOut[key].v) : sanOut[key].v[j] # JNull

\* out is arr without the elements the rules prune, the others in their
\* order, scalars as they were and containers sanitized.
StableFilter(arr, out) ==
    LET kept == SelectSeq(arr, KeepElement)
    IN /\ Len(out) = Len(kept)
       /\ \A j \in 1..Len(kept) :
            out[j] = IF IsScalar(kept[j]) THEN kept[j] ELSE SanitizeValue(kept[j])

\* C17: the sequence SanitizeJSON returns under a key is a stable filter of
\* the input sequence: the surviving elements in their input order, each
\* unchanged (scalar) or sanitized (Document, sequence), none duplicated or
\* introduced; a sequence nothing survives of is not in the result.
C17_StableFilter ==
    sanPC \in {"once", "twice"} =>
        \A key \in DOMAIN sanIn :
            sanIn[key].t = "arr" /\ ~DotKey(key) =>
                IF key \in DOMAIN sanOut
                THEN sanOut[key].t = "arr" /\ StableFilter(sanIn[key].v, sanOut[key].v)
                ELSE SelectSeq(sanIn[key].v, KeepElement) = <<>>

\* Two different elements have both survived, in their order.
C17_Witness ==
    /\ sanPC = "once"
    /\ "a" \in DOMAIN sanIn /\ sanIn["a"] = JArr(<<JNum(0), JStr("x")>>)
    /\ "a" \in DOMAIN sanOut /\ sanOut["a"] = JArr(<<JNum(0), JStr("x")>>)

\* After SanitizeJSON has returned, the decoded map is still what
\* json.Unmarshal made of the body; once IndexDocument has been called, the
\* sanitized map is still what it was called with, and every sendRequest call
\* made so far was given the JSON text of that map.
C18_InputsIntact ==
    \A i \in Items :
        Decoded(i) =>
            /\ data[i] = Unmarshal(body[i]).data
            /\ cleanData[i] = sentDoc[i]
            /\ nAttempts[i] >= 1 => sentBody[i] = Marshal(sentDoc[i])

\* No step of an item between its decoding and its completion signal changes
\* its decoded map, none after the SanitizeJSON call changes its sanitized
\* map, and a further attempt is given the body of the attempt before.
C18_StepsKeepInputs ==
    \A i \in Items :
        /\ pc[i] \in {"sanitize", "index", "sleep", "respond"} => data'[i] = data[i]
        /\ pc[i] \in {"index", "sleep", "respond"} =>
            cleanData'[i] = cleanData[i] /\ sentDoc'[i] = sentDoc[i]
        /\ pc[i] = "index" /\ nAttempts[i] >= 1 => sentBody'[i] = sentBody[i]

\* C18: SanitizeJSON leaves the map it is given as it was, and IndexDocument
\* leaves the document it is given as it was across all its attempts, each
\* of which sends the same body.
C18_NoMutation == []C18_InputsIntact /\ [][C18_StepsKeepInputs]_vars

\* A document that sanitizing changes has been sanitized and sent three times.
C18_Witness ==
    \E i \in Items :
        /\ pc[i] = "respond" /\ nAttempts[i] = maxRetries
        /\ data[i] = Doc1 /\ cleanData[i] # data[i]
        /\ sentBody[i] = "{\"name\":\"x\"}"

\* The place of a step in the order of processRequest; the delivery attempts
\* and their delays share one place.
Rank(step) ==
    CASE step = "method" -> 1
      [] step = "read" -> 2
      [] step = "decode" -> 3
      [] step = "sanitize" -> 4
      [] step \in {"attempt", "sleep"} -> 5
      [] step = "write" -> 6

InOrder(log) ==
    /\ log # <<>> => log[1] = "method"
    /\ \A j \in 2..Len(log) :
        /\ Rank(log[j - 1]) <= Rank(log[j])
        /\ Rank(log[j - 1]) = Rank(log[j]) => Rank(log[j]) = 5
        /\ log[j] \in {"read", "decode", "sanitize"} => Rank(log[j - 1]) = Rank(log[j]) - 1
        /\ log[j] = "attempt" => log[j - 1] \in {"sanitize", "sleep"}
        /\ log[j] = "sleep" => log[j - 1] = "attempt"
        /\ log[j] = "write" => log[j - 1] \in {"method", "read", "decode", "attempt"}

Took(i, step) == \E j \in 1..Len(steps[i]) : steps[i][j] = step

C19_Ordered ==
    \A i \in Items :
        /\ InOrder(steps[i])
        /\ Took(i, "attempt") => Took(i, "sanitize") /\ nSanitized[i] = 1
        /\ pc[i] \in {"index", "sleep"} => Took(i, "sanitize") /\ ~Took(i, "write")
        /\ Took(i, "write") <=> pc[i] = "defer"
        /\ pc[i] = "defer" => steps[i][Len(steps[i])] = "write" /\ resp[i] # NoResponse

\* The completion signal of an item is sent when its response is written, and
\* no delivery attempt is made for an item whose response is written.
C19_SignalLast ==
    \A i \in Items :
        /\ nSignals'[i] > nSignals[i] =>
            /\ steps[i] # <<>> /\ steps[i][Len(steps[i])] = "write"
            /\ resp[i] # NoResponse
        /\ nAttempts'[i] > nAttempts[i] =>
            /\ Len(steps[i]) >= 4 /\ steps[i][4] = "sanitize"
            /\ resp[i] = NoResponse

\* C19: the steps of one Work Item are taken in the order method check, body
\* read, decode, sanitize, delivery attempts with a delay between two of
\* them, response write, completion signal: no attempt before the
\* sanitizer has returned, the write after the last attempt, the signal
\* after the write.
C19_StepOrder == []C19_Ordered /\ [][C19_SignalLast]_vars

\* An item has gone through every step, with three attempts and two delays.
C19_Witness ==
    \E i \in Items :
        /\ pc[i] = "defer"
        /\ steps[i] = <<"method", "read", "decode", "sanitize", "attempt", "sleep",
                         "attempt", "sleep", "attempt", "write">>

\* The response as a function of the item's own method, body and whether its
\* last delivery attempt failed.
OwnResponse(m, b, lastFailed) ==
    IF m # "POST" THEN Response(StatusMethodNotAllowed, "error", EmptyMap)
    ELSE IF ~b.readable \/ Unmarshal(b).err THEN Response(StatusBadRequest, "error", EmptyMap)
    ELSE Response(StatusOK, IF lastFailed THEN "warning" ELSE "success",
                  SanitizeJSON(Unmarshal(b).data))

LastAttemptFailed(i) == sendRequest(urlOK, outcome[i], nAttempts[i]) # NoErr

Admitted == {i \in Items : Queued(i) \/ InProcess(i)}

\* C21: the channel never holds more than NumWorkers items; the send of a
\* submitter can go through exactly when the channel holds fewer than
\* NumWorkers; at most 2 * NumWorkers items are queued or in processing, and
\* when that many are, every other submitter that has reached its send waits
\* there.
C21_QueueBound ==
    /\ Len(requests) <= NumWorkers
    /\ \A j \in 1..Len(requests) : \A k \in 1..Len(requests) :
        j # k => requests[j] # requests[k]
    /\ \A i \in Items : Queued(i) => pc[i] = "none" /\ subPC[i] = "recv"
    /\ \A i \in Items :
        subPC[i] = "send" => ((ENABLED Enqueue(i)) <=> Len(requests) < NumWorkers)
    /\ Cardinality(Admitted) <= 2 * NumWorkers
    /\ Cardinality(Admitted) = 2 * NumWorkers =>
        \A i \in Items : subPC[i] = "send" => ~ENABLED Enqueue(i)

\* 2 * NumWorkers items are admitted and one more submitter waits in its send.
C21_Witness ==
    /\ Cardinality(Admitted) = 2 * NumWorkers
    /\ \E i \in Items : i \notin Admitted /\ subPC[i] = "send" /\ ~ENABLED Enqueue(i)

\* The body of a POST is JSON text that does not hold an object.
NonObjectBody(i) ==
    method[i] = "POST" /\ body[i].readable /\ body[i].wellformed /\ body[i].json.t # "obj"

\* C22: a POST whose body is valid JSON but not an object (null, array,
\* string, number, boolean) is answered with 400 without a sanitizer call or
\* a delivery attempt; only a body holding an object gets past the decode.
\* json.Unmarshal of null into the nil map returns no error, so the body
\* "null" is sanitized, indexed as {} and answered with 200.
C22_NonObjectRejected ==
    \A i \in Items :
        /\ pc[i] \in {"sanitize", "index", "sleep", "respond"} => ~NonObjectBody(i)
        /\ pc[i] = "defer" /\ NonObjectBody(i) =>
            /\ resp[i].code = StatusBadRequest
            /\ nSanitized[i] = 0 /\ nAttempts[i] = 0

\* The same for every non-object value but null: this much holds.
C22_NonNullNonObjectRejected ==
    \A i \in Items :
        NonObjectBody(i) /\ body[i].json.t # "null" =>
            /\ pc[i] \notin {"sanitize", "index", "sleep", "respond"}
            /\ pc[i] = "defer" =>
                /\ resp[i].code = StatusBadRequest
                /\ nSanitized[i] = 0 /\ nAttempts[i] = 0

\* The body "null" has been indexed and answered with success.
C22_NullIndexed ==
    \E i \in Items :
        /\ pc[i] = "defer" /\ NonObjectBody(i) /\ body[i].json = JNull
        /\ resp[i] = Response(StatusOK, "success", EmptyMap) /\ nAttempts[i] >= 1

\* processRequest is at or past the IndexDocument call for item i.
AtIndexing(i) == pc[i] \in {"index", "sleep", "respond", "panic"}

\* C23: the workers run from NewPool on, while the pool's client is set only
\* in Start; Start sets it before the listener accepts a request, so no
\* request is taken in while the client is unset, no worker is at the
\* IndexDocument call of an item with the client unset, and no such call
\* panics.
C23_ClientSetBeforeServing ==
    /\ es <=> startPC \in {"client", "listening", "failed"}
    /\ ~es => \A i \in Items : subPC[i] = "new" /\ pc[i] = "none"
    /\ \A i \in Items :
        /\ AtIndexing(i) => es
        /\ pc[i] # "panic"
        /\ nAttempts[i] >= 1 => es

\* The listener is open, the client set, and a worker has made a delivery
\* attempt for an item.
C23_Witness ==
    /\ startPC = "listening" /\ es
    /\ \E i \in Items : pc[i] = "sleep" /\ nAttempts[i] = 1 /\ AtIndexing(i)

====
